---------------------------- MODULE Spec2Model ----------------------------
(***************************************************************************)
(* Model of the document-to-vector ingestion pipeline of                   *)
(* ecs_fargate_app/lambda_vector_processor/vector_processor.py and of its  *)
(* driver scripts/process_wa_documents.py.                                 *)
(*                                                                         *)
(* Texts are TLA+ strings; offsets are 0-based as in Python and the        *)
(* operators Slice, rfind and strip follow the Python built-ins.           *)
(***************************************************************************)
EXTENDS Integers, Sequences, FiniteSets, TLC

VARIABLES
    \* ---- chunk_text (one call, stepped through its while loop) ----
    text,             \* argument text
    char_chunk_size,  \* chunk_size * 4
    char_overlap,     \* overlap * 4
    chunks,           \* the list being built
    start,            \* loop variable start
    chunk_index,      \* loop variable chunk_index
    cpc               \* position in chunk_text: "idle", "loop", "returned"

VARIABLES
    \* ---- the deployment: one embedding service, one clock, one bucket ----
    service_dimensions, \* length of the vectors the embedding service answers with
    clock,            \* datetime.utcnow()
    vectors,          \* VECTORS_BUCKET objects under embeddings/: key -> body
    index,            \* VECTORS_BUCKET object metadata/index.json
    \* ---- the handler invocations, numbered in the order they are made ----
    pc,               \* stage of the run
    event,            \* the handler's event argument
    content,          \* process_document: content
    doc_chunks,       \* process_document: chunks
    processed_chunks, \* process_document: processed_chunks = handler: chunks
    stored,           \* store_vectors: chunks already put
    local_index,      \* update_index: index
    response,         \* what the handler returned
    trace             \* external calls made by the invocation, in order

VARIABLES
    \* ---- generate_chunk_id called on its own ----
    id_calls          \* the calls made: text, metadata and the id returned

chunkVars == <<text, char_chunk_size, char_overlap, chunks, start, chunk_index, cpc>>

serviceVars == <<service_dimensions>>

idVars == <<id_calls>>

bucketVars == <<clock, vectors, index>>

runVars == <<pc, event, content, doc_chunks, processed_chunks, stored,
             local_index, response, trace>>

vars == <<chunkVars, idVars, serviceVars, bucketVars, runVars>>

(***************************************************************************)
(* Bounds                                                                  *)
(***************************************************************************)
MaxLen == 10           \* longest text handed to the stepped chunk_text
MaxMarks == 2          \* most periods and newlines in such a text
MaxChunkSize == 2      \* largest chunk_size argument (tokens)
MaxOverlap == 2        \* largest overlap argument (tokens)
MaxIter == 5           \* loop iterations of chunk_text that are followed
MaxInvocations == 2    \* handler invocations in one behaviour
MaxClock == 1          \* last instant of the clock
MaxIdCalls == 2        \* calls of generate_chunk_id made on its own

(***************************************************************************)
(* Python built-ins                                                        *)
(***************************************************************************)
Min2(a, b) == IF a <= b THEN a ELSE b

Max2(a, b) == IF a >= b THEN a ELSE b

\* A slice bound i of a string of length n, as Python normalises it.
SliceIndex(i, n) == IF i < 0 THEN Max2(i + n, 0) ELSE Min2(i, n)

\* s[a:b]
Slice(s, a, b) ==
    LET lo == SliceIndex(a, Len(s))
        hi == SliceIndex(b, Len(s))
    IN  IF lo >= hi THEN "" ELSE SubSeq(s, lo + 1, hi)

\* s[i] for 0 <= i < len(s)
CharAt(s, i) == SubSeq(s, i + 1, i + 1)

\* s.rfind(c): the highest index of c in s, or -1
rfind(s, c) ==
    LET n == Len(s)
    IN  IF \A i \in 0..(n - 1) : CharAt(s, i) # c THEN -1
        ELSE CHOOSE i \in 0..(n - 1) :
                /\ CharAt(s, i) = c
                /\ \A j \in (i + 1)..(n - 1) : CharAt(s, j) # c

Whitespace == {" ", "\n", "\t", "\r", "\f"}

\* s.strip()
strip(s) ==
    LET n == Len(s)
        blank(i) == CharAt(s, i) \in Whitespace
    IN  IF \A i \in 0..(n - 1) : blank(i) THEN ""
        ELSE LET first == CHOOSE i \in 0..(n - 1) :
                             ~blank(i) /\ \A j \in 0..(i - 1) : blank(j)
                 last == CHOOSE i \in 0..(n - 1) :
                            ~blank(i) /\ \A j \in (i + 1)..(n - 1) : blank(j)
             IN  SubSeq(s, first + 1, last + 1)

(***************************************************************************)
(* chunk_text                                                              *)
(***************************************************************************)
CharsPerToken == 4

\* break_point > char_chunk_size * 0.7.  The product is a double in the
\* source; for the window sizes of this model (4, 8, 12 and the default
\* 3200) the double product is exact or not an integer, so the comparison
\* agrees with the exact one.
PastThreshold(break_point, size) == 10 * break_point > 7 * size

\* Mutant of WindowEnd: the chunk is cut at the period or newline, not after
\* it.
WindowEnd_Inclusive(t, s, size) ==
    LET end == s + size
        window == Slice(t, s, end)
        break_point == Max2(rfind(window, "."), rfind(window, "\n"))
    IN  IF end < Len(t) /\ PastThreshold(break_point, size)
        THEN s + break_point
        ELSE end

\* The value of end after the body of one iteration that began at s.
WindowEnd(t, s, size) ==
    LET end == s + size
        window == Slice(t, s, end)
        break_point == Max2(rfind(window, "."), rfind(window, "\n"))
    IN  IF end < Len(t) /\ PastThreshold(break_point, size)
        THEN s + break_point + 1
        ELSE end

\* Mutant of ChunkDict: the offsets are those of the trimmed text.
ChunkDict_Trimmed(t, s, end, idx) ==
    LET window == Slice(t, s, end)
        body == strip(window)
        lead == Len(window) - Len(strip(window \o "a")) + 1
    IN  [text |-> body,
         chunk_index |-> idx,
         start_char |-> s + lead,
         end_char |-> s + lead + Len(body)]

\* Mutant of ChunkDict: end_char is the end of the text the chunk holds.
ChunkDict_Clamped(t, s, end, idx) ==
    [text |-> strip(Slice(t, s, end)),
     chunk_index |-> idx,
     start_char |-> s,
     end_char |-> Min2(end, Len(t))]

\* Mutant of ChunkDict: chunk_index is incremented before the append.
ChunkDict_OneBased(t, s, end, idx) ==
    [text |-> strip(Slice(t, s, end)),
     chunk_index |-> idx + 1,
     start_char |-> s,
     end_char |-> end]

\* The dictionary appended by the iteration that began at s and found end.
ChunkDict(t, s, end, idx) ==
    [text |-> strip(Slice(t, s, end)),
     chunk_index |-> idx,
     start_char |-> s,
     end_char |-> end]

\* chunk_text(t, chunk_size, overlap), from the iteration that begins at s.
RECURSIVE ChunkLoop(_, _, _, _, _, _)
ChunkLoop(t, size, ov, s, idx, acc) ==
    IF s < Len(t)
    THEN LET end == WindowEnd(t, s, size)
         IN  ChunkLoop(t, size, ov, end - ov, idx + 1,
                       Append(acc, ChunkDict(t, s, end, idx)))
    ELSE acc

DefaultChunkSize == 800

DefaultOverlap == 60

chunk_text(t, chunk_size, overlap) ==
    ChunkLoop(t, chunk_size * CharsPerToken, overlap * CharsPerToken, 0, 0, <<>>)

(***************************************************************************)
(* generate_chunk_id                                                       *)
(***************************************************************************)
\* datetime.isoformat() of the instant t
isoformat(t) == "2025-01-01T00:00:0" \o ToString(t)

Quote(s) == "\"" \o s \o "\""

\* A dict is the sequence of its <<key, value>> items in insertion order.
\* The keys of the metadata dict, as sorted() orders them:
KeyOrder ==
    <<"chunk_index", "end_char", "lens_name", "pillar", "processed_at",
      "source_file", "start_char">>

KeyRank(k) == CHOOSE i \in 1..Len(KeyOrder) : KeyOrder[i] = k

\* the keys whose values are integers
IntKeys == {"chunk_index", "end_char", "start_char"}

\* sorted(m.items()): the items of m by ascending key
SortItems(m) ==
    LET n == Len(m)
        place(i) == 1 + Cardinality({j \in 1..n : KeyRank(m[j][1]) < KeyRank(m[i][1])})
    IN  [p \in 1..n |-> m[CHOOSE i \in 1..n : place(i) = p]]

\* "key": value, for a string or integer value without characters that
\* json escapes
DumpsItem(item) ==
    Quote(item[1]) \o ": " \o
       (IF item[1] \in IntKeys THEN ToString(item[2]) ELSE Quote(item[2]))

\* the items from the i-th on, separated by ", "
RECURSIVE JoinItems(_, _)
JoinItems(items, i) ==
    IF i > Len(items) THEN ""
    ELSE IF i = Len(items) THEN DumpsItem(items[i])
    ELSE DumpsItem(items[i]) \o ", " \o JoinItems(items, i + 1)

\* Mutant of DumpsSorted: json.dumps(metadata), the keys in insertion order.
DumpsSorted_Unsorted(m) == "{" \o JoinItems(m, 1) \o "}"

\* json.dumps(metadata, sort_keys=True)
DumpsSorted(m) == "{" \o JoinItems(SortItems(m), 1) \o "}"

\* hashlib.sha256(c.encode()).hexdigest()[:16], taken to be injective: the
\* digest is represented by the string it was computed from.
Sha256Prefix(c) == "sha256:" \o c

generate_chunk_id(t, metadata) == Sha256Prefix(t \o DumpsSorted(metadata))

(***************************************************************************)
(* process_document: one iteration of the loop over chunks                 *)
(***************************************************************************)
Metadata(ev, chunk, now) ==
    << <<"lens_name", ev.lens_name>>,
       <<"pillar", ev.pillar>>,
       <<"source_file", ev.source_file>>,
       <<"chunk_index", chunk.chunk_index>>,
       <<"start_char", chunk.start_char>>,
       <<"end_char", chunk.end_char>>,
       <<"processed_at", isoformat(now)>> >>

ProcessedChunk(ev, chunk, embedding, now) ==
    [id |-> generate_chunk_id(chunk.text, Metadata(ev, chunk, now)),
     text |-> chunk.text,
     embedding |-> embedding,
     metadata |-> Metadata(ev, chunk, now)]

(***************************************************************************)
(* store_vectors                                                           *)
(***************************************************************************)
UpperCase == "ABCDEFGHIJKLMNOPQRSTUVWXYZ"

LowerCase == "abcdefghijklmnopqrstuvwxyz"

\* Mutant of KeyChar: spaces are replaced with underscores.
KeyChar_Underscore(c) ==
    IF c = " " THEN "_"
    ELSE IF \E i \in 1..Len(UpperCase) : SubSeq(UpperCase, i, i) = c
         THEN LET i == CHOOSE i \in 1..Len(UpperCase) : SubSeq(UpperCase, i, i) = c
              IN  SubSeq(LowerCase, i, i)
         ELSE c

\* c.lower() followed by c.replace(' ', '-') for a single character
KeyChar(c) ==
    IF c = " " THEN "-"
    ELSE IF \E i \in 1..Len(UpperCase) : SubSeq(UpperCase, i, i) = c
         THEN LET i == CHOOSE i \in 1..Len(UpperCase) : SubSeq(UpperCase, i, i) = c
              IN  SubSeq(LowerCase, i, i)
         ELSE c

\* name.lower().replace(' ', '-')
RECURSIVE NormalizeKey(_)
NormalizeKey(name) ==
    IF name = "" THEN ""
    ELSE KeyChar(SubSeq(name, 1, 1)) \o NormalizeKey(SubSeq(name, 2, Len(name)))

S3Key(lens_name, pillar, id) ==
    "embeddings/" \o NormalizeKey(lens_name) \o "/" \o NormalizeKey(pillar)
                  \o "/" \o id \o ".json"

\* s3_client.put_object(Key=key, Body=body) on the objects under embeddings/.
\* The body, json.dumps(chunk), is written as the record it encodes: nothing
\* in the code parses a chunk object back.
PutObject(objects, key, body) == (key :> body) @@ objects

\* store_vectors lines 179-189 with every put succeeding
RECURSIVE StoreAll(_, _, _, _)
StoreAll(objects, records, lens_name, pillar) ==
    IF records = <<>> THEN objects
    ELSE StoreAll(PutObject(objects, S3Key(lens_name, pillar, Head(records).id),
                            Head(records)),
                  Tail(records), lens_name, pillar)

(***************************************************************************)
(* update_index                                                            *)
(***************************************************************************)
EmptyDict == [k \in {} |-> k]

NoSuchKey == [exists |-> FALSE, lenses |-> EmptyDict]

\* the parsed body of metadata/index.json
IndexObject(lenses) == [exists |-> TRUE, lenses |-> lenses]

\* metadata/index.json with a body that json.loads rejects
NotJson == [exists |-> TRUE, body |-> "<html>"]

\* metadata/index.json holding the JSON object {}, which has no 'lenses'
WithoutLenses == [exists |-> TRUE, parsed |-> EmptyDict]

\* line 206: json.loads accepts the body
Parses(object) == "body" \notin DOMAIN object

\* lines 204-208: the value of the local variable index after the read, when
\* the read does not raise
ReadIndex(object) ==
    IF ~object.exists THEN [lenses |-> EmptyDict]
    ELSE IF "lenses" \in DOMAIN object THEN [lenses |-> object.lenses]
    ELSE object.parsed

\* Mutant of UpdatedIndex: the lens entry is replaced by one holding the new
\* pillar only.
UpdatedIndex_Replace(idx, lens_name, pillar, chunk_count, now) ==
    LET entry == [chunk_count |-> chunk_count, last_updated |-> isoformat(now)]
    IN  [lenses |-> (lens_name :> [pillars |-> (pillar :> entry)]) @@ idx.lenses]

\* Mutant of UpdatedIndex: the chunk count is added to the count the entry
\* holds.
UpdatedIndex_Accumulate(idx, lens_name, pillar, chunk_count, now) ==
    LET lenses1 == IF lens_name \notin DOMAIN idx.lenses
                   THEN (lens_name :> [pillars |-> EmptyDict]) @@ idx.lenses
                   ELSE idx.lenses
        old == lenses1[lens_name].pillars
        total == IF pillar \in DOMAIN old THEN old[pillar].chunk_count + chunk_count
                 ELSE chunk_count
        entry == [chunk_count |-> total, last_updated |-> isoformat(now)]
        pillars1 == (pillar :> entry) @@ old
    IN  [lenses |-> (lens_name :> [pillars |-> pillars1]) @@ lenses1]

\* Mutant of UpdatedIndex: every pillar entry of the lens gets the new
\* last_updated.
UpdatedIndex_Touch(idx, lens_name, pillar, chunk_count, now) ==
    LET lenses1 == IF lens_name \notin DOMAIN idx.lenses
                   THEN (lens_name :> [pillars |-> EmptyDict]) @@ idx.lenses
                   ELSE idx.lenses
        entry == [chunk_count |-> chunk_count, last_updated |-> isoformat(now)]
        old == lenses1[lens_name].pillars
        touched == [q \in DOMAIN old |-> [old[q] EXCEPT !.last_updated = isoformat(now)]]
        pillars1 == (pillar :> entry) @@ touched
    IN  [lenses |-> (lens_name :> [pillars |-> pillars1]) @@ lenses1]

\* lines 211-217: the in-memory update
UpdatedIndex(idx, lens_name, pillar, chunk_count, now) ==
    LET lenses1 == IF lens_name \notin DOMAIN idx.lenses
                   THEN (lens_name :> [pillars |-> EmptyDict]) @@ idx.lenses
                   ELSE idx.lenses
        entry == [chunk_count |-> chunk_count, last_updated |-> isoformat(now)]
        pillars1 == (pillar :> entry) @@ lenses1[lens_name].pillars
    IN  [lenses |-> (lens_name :> [pillars |-> pillars1]) @@ lenses1]

(***************************************************************************)
(* The deployment                                                          *)
(***************************************************************************)
Runs == 1..MaxInvocations

EMBEDDING_DIMENSIONS == 1024

\* The lengths of result['embedding'] that an embedding service may answer
\* with (a vector is represented by its length).  The service is outside the
\* code; the one of a behaviour answers every call with the same length.
ResponseDimensions == {EMBEDDING_DIMENSIONS, 256}

RECURSIVE Repeat(_, _)
Repeat(s, n) ==
    IF n = 0 THEN ""
    ELSE IF n % 2 = 0 THEN LET h == Repeat(s, n \div 2) IN h \o h
    ELSE s \o Repeat(s, n - 1)

\* The objects of SOURCE_BUCKET: a document of three chunks and an empty one.
SourceBucket ==
    ("wellarchitected/wellarchitected-operational-excellence-pillar.pdf"
        :> (Repeat("a", 3000) \o ".\n" \o Repeat("b", 3200) \o " c"))
    @@ ("wellarchitected/wellarchitected-security-pillar.pdf" :> "")

\* chunk_text(content) for each document, with the default arguments
\* (a table, so that the loop is evaluated once per document).
DocumentChunks ==
    [t \in {SourceBucket[k] : k \in DOMAIN SourceBucket} |->
        chunk_text(t, DefaultChunkSize, DefaultOverlap)]

EventFields == <<"source_key", "lens_name", "pillar", "source_file">>

\* the first two entries of documents in main(), and an event without
\* its source_file
Events ==
    {[source_key |-> "wellarchitected/wellarchitected-operational-excellence-pillar.pdf",
      lens_name |-> "Well-Architected Framework",
      pillar |-> "Operational Excellence",
      source_file |-> "wellarchitected-operational-excellence-pillar.pdf"],
     [source_key |-> "wellarchitected/wellarchitected-security-pillar.pdf",
      lens_name |-> "Well-Architected Framework",
      pillar |-> "Security",
      source_file |-> "wellarchitected-security-pillar.pdf"],
     [source_key |-> "wellarchitected/wellarchitected-reliability-pillar.pdf",
      lens_name |-> "Well-Architected Framework",
      pillar |-> "Reliability"]}

NoEvent == [none |-> TRUE]

NoResponse == [statusCode |-> 0, body |-> [none |-> TRUE]]

\* the except clause of handler
ErrorResponse(e) == [statusCode |-> 500, body |-> [error |-> e]]

SuccessResponse(n) ==
    [statusCode |-> 200,
     body |-> [message |-> "Document processed successfully", chunks_created |-> n]]

Call(op, n, ok) == [op |-> op, n |-> n, ok |-> ok]

IdIdle == id_calls = <<>>

ChunkIdle ==
    /\ text = ""
    /\ char_chunk_size = DefaultChunkSize * CharsPerToken
    /\ char_overlap = DefaultOverlap * CharsPerToken
    /\ chunks = <<>>
    /\ start = 0
    /\ chunk_index = 0
    /\ cpc = "idle"

RunsIdle ==
    /\ pc = [r \in Runs |-> "Idle"]
    /\ event = [r \in Runs |-> NoEvent]
    /\ content = [r \in Runs |-> ""]
    /\ doc_chunks = [r \in Runs |-> <<>>]
    /\ processed_chunks = [r \in Runs |-> <<>>]
    /\ stored = [r \in Runs |-> 0]
    /\ local_index = [r \in Runs |-> [lenses |-> EmptyDict]]
    /\ response = [r \in Runs |-> NoResponse]
    /\ trace = [r \in Runs |-> <<>>]

BucketEmpty ==
    /\ clock = 0
    /\ vectors = EmptyDict
    /\ index = NoSuchKey

\* The service answers with vectors of the length asked for.
ServiceConforms == service_dimensions = EMBEDDING_DIMENSIONS

Init ==
    /\ ChunkIdle
    /\ IdIdle
    /\ service_dimensions \in ResponseDimensions
    /\ BucketEmpty
    /\ RunsIdle

\* Mutant of Fail: the exception leaves the handler instead of being turned
\* into a response.
Fail_Propagates(r, e) ==
    /\ pc' = [pc EXCEPT ![r] = "Raised"]
    /\ UNCHANGED response

\* The handler fails: the except clause returns the 500 response.
Fail(r, e) ==
    /\ pc' = [pc EXCEPT ![r] = "Failed"]
    /\ response' = [response EXCEPT ![r] = ErrorResponse(e)]

\* lambda_client.invoke(InvocationType='Event'): the next handler invocation
\* begins, whatever the earlier ones are doing.
Invoke(r, ev) ==
    /\ pc[r] = "Idle"
    /\ \A q \in Runs : q < r => pc[q] # "Idle"
    /\ pc' = [pc EXCEPT ![r] = "Started"]
    /\ event' = [event EXCEPT ![r] = ev]
    /\ UNCHANGED <<chunkVars, idVars, serviceVars, bucketVars, content, doc_chunks, processed_chunks,
                   stored, local_index, response, trace>>

\* handler lines 241-244: the four event fields are read.
ReadEvent(r) ==
    /\ pc[r] = "Started"
    /\ IF \E i \in 1..Len(EventFields) : EventFields[i] \notin DOMAIN event[r]
       THEN Fail(r, "KeyError")
       ELSE /\ pc' = [pc EXCEPT ![r] = "Fetching"]
            /\ UNCHANGED response
    /\ UNCHANGED <<chunkVars, idVars, serviceVars, bucketVars, event, content, doc_chunks,
                   processed_chunks, stored, local_index, trace>>

\* process_document lines 130-131: the document is read and decoded.
Fetch(r) ==
    /\ pc[r] = "Fetching"
    /\ \E ok \in BOOLEAN :
          /\ trace' = [trace EXCEPT ![r] = Append(@, Call("get_object", 0, ok))]
          /\ IF ok /\ event[r].source_key \in DOMAIN SourceBucket
             THEN /\ content' = [content EXCEPT ![r] = SourceBucket[event[r].source_key]]
                  /\ pc' = [pc EXCEPT ![r] = "Chunking"]
                  /\ UNCHANGED response
             ELSE /\ Fail(r, "SourceReadError")
                  /\ UNCHANGED content
    /\ UNCHANGED <<chunkVars, idVars, serviceVars, bucketVars, event, doc_chunks, processed_chunks,
                   stored, local_index>>

\* process_document line 134
Chunk(r) ==
    /\ pc[r] = "Chunking"
    /\ doc_chunks' = [doc_chunks EXCEPT ![r] = DocumentChunks[content[r]]]
    /\ pc' = [pc EXCEPT ![r] = "Embedding"]
    /\ UNCHANGED <<chunkVars, idVars, serviceVars, bucketVars, event, content, processed_chunks,
                   stored, local_index, response, trace>>

\* Mutant of Embed: each record is put as soon as it is made.
Embed_Streaming(r) ==
    /\ pc[r] = "Embedding"
    /\ Len(processed_chunks[r]) < Len(doc_chunks[r])
    /\ LET n == Len(processed_chunks[r])
           chunk == doc_chunks[r][n + 1]
           record == ProcessedChunk(event[r], chunk,
                                    [dimensions |-> service_dimensions], clock)
       IN  \E ok \in BOOLEAN :
              IF ok
              THEN /\ trace' = [trace EXCEPT ![r] =
                         @ \o <<Call("invoke_model", chunk.chunk_index, TRUE),
                                Call("put_object", n, TRUE)>>]
                   /\ processed_chunks' = [processed_chunks EXCEPT ![r] =
                                              Append(@, record)]
                   /\ vectors' = PutObject(vectors,
                         S3Key(event[r].lens_name, event[r].pillar, record.id), record)
                   /\ stored' = [stored EXCEPT ![r] = @ + 1]
                   /\ UNCHANGED <<pc, response>>
              ELSE /\ trace' = [trace EXCEPT ![r] =
                         Append(@, Call("invoke_model", chunk.chunk_index, FALSE))]
                   /\ Fail(r, "EmbeddingError")
                   /\ UNCHANGED <<processed_chunks, vectors, stored>>
    /\ UNCHANGED <<chunkVars, idVars, serviceVars, clock, index, event, content, doc_chunks,
                   local_index>>

\* Mutant of Embed: a failed embedding call is repeated once before the
\* exception is re-raised.
Embed_Retry(r) ==
    /\ pc[r] = "Embedding"
    /\ Len(processed_chunks[r]) < Len(doc_chunks[r])
    /\ LET n == Len(processed_chunks[r])
           chunk == doc_chunks[r][n + 1]
           failed == Call("invoke_model", chunk.chunk_index, FALSE)
       IN  \E ok \in BOOLEAN :
              /\ trace' = [trace EXCEPT ![r] =
                              Append(@, Call("invoke_model", chunk.chunk_index, ok))]
              /\ IF ok
                 THEN /\ processed_chunks' = [processed_chunks EXCEPT ![r] =
                            Append(@, ProcessedChunk(event[r], chunk,
                                        [dimensions |-> service_dimensions], clock))]
                      /\ UNCHANGED <<pc, response>>
                 ELSE IF trace[r][Len(trace[r])] = failed
                 THEN /\ Fail(r, "EmbeddingError")
                      /\ UNCHANGED processed_chunks
                 ELSE UNCHANGED <<pc, response, processed_chunks>>
    /\ UNCHANGED <<chunkVars, idVars, serviceVars, bucketVars, event, content, doc_chunks, stored,
                   local_index>>

\* process_document lines 138-161: one iteration of the loop; the embedding
\* call may raise, which generate_embedding re-raises.
Embed(r) ==
    /\ pc[r] = "Embedding"
    /\ Len(processed_chunks[r]) < Len(doc_chunks[r])
    /\ LET n == Len(processed_chunks[r])
           chunk == doc_chunks[r][n + 1]
       IN  \E ok \in BOOLEAN :
              /\ trace' = [trace EXCEPT ![r] =
                              Append(@, Call("invoke_model", chunk.chunk_index, ok))]
              /\ IF ok
                 THEN /\ processed_chunks' = [processed_chunks EXCEPT ![r] =
                            Append(@, ProcessedChunk(event[r], chunk,
                                        [dimensions |-> service_dimensions], clock))]
                      /\ UNCHANGED <<pc, response>>
                 ELSE /\ Fail(r, "EmbeddingError")
                      /\ UNCHANGED processed_chunks
    /\ UNCHANGED <<chunkVars, idVars, serviceVars, bucketVars, event, content, doc_chunks, stored,
                   local_index>>

\* Mutant of EmbedReturn: a document without chunks is an error.
EmbedReturn_RequireChunks(r) ==
    /\ pc[r] = "Embedding"
    /\ Len(processed_chunks[r]) = Len(doc_chunks[r])
    /\ IF Len(processed_chunks[r]) = 0
       THEN Fail(r, "ValueError")
       ELSE /\ pc' = [pc EXCEPT ![r] = "Storing"]
            /\ UNCHANGED response
    /\ UNCHANGED <<chunkVars, idVars, serviceVars, bucketVars, event, content, doc_chunks,
                   processed_chunks, stored, local_index, trace>>

\* Mutant of EmbedReturn: process_document returns only once it has made a
\* record.
EmbedReturn_AwaitChunks(r) ==
    /\ pc[r] = "Embedding"
    /\ Len(processed_chunks[r]) = Len(doc_chunks[r])
    /\ Len(processed_chunks[r]) > 0
    /\ pc' = [pc EXCEPT ![r] = "Storing"]
    /\ UNCHANGED <<chunkVars, idVars, serviceVars, bucketVars, event, content, doc_chunks,
                   processed_chunks, stored, local_index, response, trace>>

\* process_document line 163: the loop is over, processed_chunks is returned.
EmbedReturn(r) ==
    /\ pc[r] = "Embedding"
    /\ Len(processed_chunks[r]) = Len(doc_chunks[r])
    /\ pc' = [pc EXCEPT ![r] = "Storing"]
    /\ UNCHANGED <<chunkVars, idVars, serviceVars, bucketVars, event, content, doc_chunks,
                   processed_chunks, stored, local_index, response, trace>>

\* Mutant of Store: each chunk is put as soon as it is embedded.
Store_Eager(r) ==
    /\ pc[r] \in {"Embedding", "Storing"}
    /\ stored[r] < Len(processed_chunks[r])
    /\ LET chunk == processed_chunks[r][stored[r] + 1]
           s3_key == S3Key(event[r].lens_name, event[r].pillar, chunk.id)
       IN  \E ok \in BOOLEAN :
              /\ trace' = [trace EXCEPT ![r] =
                              Append(@, Call("put_object", stored[r], ok))]
              /\ IF ok
                 THEN /\ vectors' = PutObject(vectors, s3_key, chunk)
                      /\ stored' = [stored EXCEPT ![r] = @ + 1]
                      /\ UNCHANGED <<pc, response>>
                 ELSE /\ Fail(r, "StorageWriteError")
                      /\ UNCHANGED <<vectors, stored>>
    /\ UNCHANGED <<chunkVars, idVars, serviceVars, clock, index, event, content, doc_chunks,
                   processed_chunks, local_index>>

\* Mutant of Store: a failed put deletes the objects the run has put before.
Store_Rollback(r) ==
    /\ pc[r] = "Storing"
    /\ stored[r] < Len(processed_chunks[r])
    /\ LET chunk == processed_chunks[r][stored[r] + 1]
           s3_key == S3Key(event[r].lens_name, event[r].pillar, chunk.id)
           written == {S3Key(event[r].lens_name, event[r].pillar,
                             processed_chunks[r][i].id) : i \in 1..stored[r]}
       IN  \E ok \in BOOLEAN :
              /\ trace' = [trace EXCEPT ![r] =
                              Append(@, Call("put_object", stored[r], ok))]
              /\ IF ok
                 THEN /\ vectors' = PutObject(vectors, s3_key, chunk)
                      /\ stored' = [stored EXCEPT ![r] = @ + 1]
                      /\ UNCHANGED <<pc, response>>
                 ELSE /\ Fail(r, "StorageWriteError")
                      /\ vectors' = [k \in DOMAIN vectors \ written |-> vectors[k]]
                      /\ UNCHANGED stored
    /\ UNCHANGED <<chunkVars, idVars, serviceVars, clock, index, event, content, doc_chunks,
                   processed_chunks, local_index>>

\* store_vectors lines 179-189: one iteration of the loop.
Store(r) ==
    /\ pc[r] = "Storing"
    /\ stored[r] < Len(processed_chunks[r])
    /\ LET chunk == processed_chunks[r][stored[r] + 1]
           s3_key == S3Key(event[r].lens_name, event[r].pillar, chunk.id)
       IN  \E ok \in BOOLEAN :
              /\ trace' = [trace EXCEPT ![r] =
                              Append(@, Call("put_object", stored[r], ok))]
              /\ IF ok
                 THEN /\ vectors' = PutObject(vectors, s3_key, chunk)
                      /\ stored' = [stored EXCEPT ![r] = @ + 1]
                      /\ UNCHANGED <<pc, response>>
                 ELSE /\ Fail(r, "StorageWriteError")
                      /\ UNCHANGED <<vectors, stored>>
    /\ UNCHANGED <<chunkVars, idVars, serviceVars, clock, index, event, content, doc_chunks,
                   processed_chunks, local_index>>

\* Mutant of StoreReturn: store_vectors may return before the last put.
StoreReturn_Early(r) ==
    /\ pc[r] = "Storing"
    /\ stored[r] <= Len(processed_chunks[r])
    /\ pc' = [pc EXCEPT ![r] = "IndexReading"]
    /\ UNCHANGED <<chunkVars, idVars, serviceVars, bucketVars, event, content, doc_chunks,
                   processed_chunks, stored, local_index, response, trace>>

\* store_vectors returns.
StoreReturn(r) ==
    /\ pc[r] = "Storing"
    /\ stored[r] = Len(processed_chunks[r])
    /\ pc' = [pc EXCEPT ![r] = "IndexReading"]
    /\ UNCHANGED <<chunkVars, idVars, serviceVars, bucketVars, event, content, doc_chunks,
                   processed_chunks, stored, local_index, response, trace>>

\* Mutant of IndexRead: every failure to load the index, not only its
\* absence, starts a fresh index.
IndexRead_CatchAll(r) ==
    /\ pc[r] = "IndexReading"
    /\ \E ok \in BOOLEAN :
          /\ trace' = [trace EXCEPT ![r] = Append(@, Call("get_index", 0, ok))]
          /\ IF ok
             THEN /\ local_index' = [local_index EXCEPT ![r] =
                        IF Parses(index) /\ "lenses" \in DOMAIN ReadIndex(index)
                        THEN ReadIndex(index) ELSE [lenses |-> EmptyDict]]
                  /\ pc' = [pc EXCEPT ![r] = "IndexWriting"]
                  /\ UNCHANGED response
             ELSE /\ Fail(r, "IndexReadError")
                  /\ UNCHANGED local_index
    /\ UNCHANGED <<chunkVars, idVars, serviceVars, bucketVars, event, content, doc_chunks,
                   processed_chunks, stored>>

\* update_index lines 204-208: metadata/index.json is read and parsed.  Only
\* NoSuchKey is caught; a failed get_object and a body that does not parse
\* raise.
IndexRead(r) ==
    /\ pc[r] = "IndexReading"
    /\ \E ok \in BOOLEAN :
          /\ trace' = [trace EXCEPT ![r] = Append(@, Call("get_index", 0, ok))]
          /\ IF ok /\ Parses(index)
             THEN /\ local_index' = [local_index EXCEPT ![r] = ReadIndex(index)]
                  /\ pc' = [pc EXCEPT ![r] = "IndexWriting"]
                  /\ UNCHANGED response
             ELSE /\ Fail(r, IF ok THEN "JSONDecodeError" ELSE "IndexReadError")
                  /\ UNCHANGED local_index
    /\ UNCHANGED <<chunkVars, idVars, serviceVars, bucketVars, event, content, doc_chunks,
                   processed_chunks, stored>>

\* Mutant of IndexWrite: the entry is set in the index as stored at the time
\* of the write, not in the copy read earlier.
IndexWrite_Merged(r) ==
    /\ pc[r] = "IndexWriting"
    /\ LET updated == UpdatedIndex(ReadIndex(index), event[r].lens_name,
                                   event[r].pillar, Len(processed_chunks[r]), clock)
       IN  \E ok \in BOOLEAN :
              /\ trace' = [trace EXCEPT ![r] = Append(@, Call("put_index", 0, ok))]
              /\ local_index' = [local_index EXCEPT ![r] = updated]
              /\ IF ok
                 THEN /\ index' = IndexObject(updated.lenses)
                      /\ pc' = [pc EXCEPT ![r] = "Done"]
                      /\ response' = [response EXCEPT ![r] =
                                         SuccessResponse(Len(processed_chunks[r]))]
                 ELSE /\ Fail(r, "IndexWriteError")
                      /\ UNCHANGED index
    /\ UNCHANGED <<chunkVars, idVars, serviceVars, clock, vectors, event, content, doc_chunks,
                   processed_chunks, stored>>

\* update_index lines 211-225 and handler lines 261-267: the entry is set in
\* the local copy, the whole index is written back, and 200 is returned.
IndexWrite(r) ==
    /\ pc[r] = "IndexWriting"
    /\ IF "lenses" \notin DOMAIN local_index[r]
       THEN \* line 211: index['lenses'] raises KeyError
            /\ Fail(r, "KeyError")
            /\ UNCHANGED <<index, local_index, trace>>
       ELSE LET updated == UpdatedIndex(local_index[r], event[r].lens_name,
                                   event[r].pillar, Len(processed_chunks[r]), clock)
            IN  \E ok \in BOOLEAN :
              /\ trace' = [trace EXCEPT ![r] = Append(@, Call("put_index", 0, ok))]
              /\ local_index' = [local_index EXCEPT ![r] = updated]
              /\ IF ok
                 THEN /\ index' = IndexObject(updated.lenses)
                      /\ pc' = [pc EXCEPT ![r] = "Done"]
                      /\ response' = [response EXCEPT ![r] =
                                         SuccessResponse(Len(processed_chunks[r]))]
                 ELSE /\ Fail(r, "IndexWriteError")
                      /\ UNCHANGED index
    /\ UNCHANGED <<chunkVars, idVars, serviceVars, clock, vectors, event, content, doc_chunks,
                   processed_chunks, stored>>

\* Time passes.
Tick ==
    /\ clock < MaxClock
    /\ clock' = clock + 1
    /\ UNCHANGED <<chunkVars, idVars, serviceVars, vectors, index, runVars>>

Next ==
    \/ \E r \in Runs, ev \in Events : Invoke(r, ev)
    \/ \E r \in Runs : ReadEvent(r)
    \/ \E r \in Runs : Fetch(r)
    \/ \E r \in Runs : Chunk(r)
    \/ \E r \in Runs : Embed(r)
    \/ \E r \in Runs : EmbedReturn(r)
    \/ \E r \in Runs : Store(r)
    \/ \E r \in Runs : StoreReturn(r)
    \/ \E r \in Runs : IndexRead(r)
    \/ \E r \in Runs : IndexWrite(r)
    \/ Tick

Spec == Init /\ [][Next]_vars

\* The next step of invocation r.
RunStep(r) ==
    \/ ReadEvent(r)
    \/ Fetch(r)
    \/ Chunk(r)
    \/ Embed(r)
    \/ EmbedReturn(r)
    \/ Store(r)
    \/ StoreReturn(r)
    \/ IndexRead(r)
    \/ IndexWrite(r)

\* The Lambda runtime runs every invocation it has started, and each call to
\* S3 or Bedrock returns or raises: an invocation that can take its next step
\* takes it.  The driver need not make a further invocation and the clock
\* need not advance.
SpecLive == Spec /\ \A r \in Runs : WF_vars(RunStep(r))

(***************************************************************************)
(* chunk_text on its own, stepped through its loop                         *)
(***************************************************************************)
Marks == {".", "\n"}

\* the texts of n characters, each a letter, a period or a newline, with at
\* most k periods and newlines
RECURSIVE TextsOf(_, _)
TextsOf(n, k) ==
    IF n = 0 THEN {""}
    ELSE {t \o "a" : t \in TextsOf(n - 1, k)}
         \cup (IF k = 0 THEN {}
               ELSE {t \o c : t \in TextsOf(n - 1, k - 1), c \in Marks})

Texts == UNION {TextsOf(n, MaxMarks) : n \in 0..MaxLen}

\* a text of 4000 characters whose only period is at offset n
PeriodAt(n) == Repeat("a", n) \o "." \o Repeat("a", 3999 - n)

\* texts chunked with the default chunk_size and overlap: the period beyond,
\* at and just past 70% of the window of 3200 characters, and no period
DefaultTexts == {PeriodAt(2800), PeriodAt(2240), PeriodAt(2241), Repeat("a", 7000)}

\* a document of ten different letters
Alphabet10 == "abcdefghij"

InitChunk ==
    /\ \/ /\ text \in Texts \cup {Alphabet10}
          /\ \E chunk_size \in 1..MaxChunkSize, overlap \in 0..MaxOverlap :
                /\ char_chunk_size = chunk_size * CharsPerToken
                /\ char_overlap = overlap * CharsPerToken
       \/ /\ text \in DefaultTexts
          /\ char_chunk_size = DefaultChunkSize * CharsPerToken
          /\ char_overlap = DefaultOverlap * CharsPerToken
    /\ chunks = <<>>
    /\ start = 0
    /\ chunk_index = 0
    /\ cpc = "loop"
    /\ IdIdle
    /\ ServiceConforms
    /\ BucketEmpty
    /\ RunsIdle

\* Mutant of ChunkIterate: the overlap is added to end, not subtracted.
ChunkIterate_Gap ==
    /\ cpc = "loop"
    /\ start < Len(text)
    /\ chunk_index < MaxIter
    /\ LET end == WindowEnd(text, start, char_chunk_size)
       IN  /\ chunks' = Append(chunks, ChunkDict(text, start, end, chunk_index))
           /\ start' = end + char_overlap
    /\ chunk_index' = chunk_index + 1
    /\ UNCHANGED <<text, char_chunk_size, char_overlap, cpc,
                   idVars, serviceVars, bucketVars, runVars>>

\* Mutant of ChunkIterate: the next start is counted from the hard window
\* boundary, not from the end the chunk was cut at.
ChunkIterate_FromWindow ==
    /\ cpc = "loop"
    /\ start < Len(text)
    /\ chunk_index < MaxIter
    /\ LET end == WindowEnd(text, start, char_chunk_size)
       IN  /\ chunks' = Append(chunks, ChunkDict(text, start, end, chunk_index))
           /\ start' = start + char_chunk_size - char_overlap
    /\ chunk_index' = chunk_index + 1
    /\ UNCHANGED <<text, char_chunk_size, char_overlap, cpc,
                   idVars, serviceVars, bucketVars, runVars>>

\* Mutant of ChunkIterate: the overlap is subtracted twice.
ChunkIterate_DoubleOverlap ==
    /\ cpc = "loop"
    /\ start < Len(text)
    /\ chunk_index < MaxIter
    /\ LET end == WindowEnd(text, start, char_chunk_size)
       IN  /\ chunks' = Append(chunks, ChunkDict(text, start, end, chunk_index))
           /\ start' = end - 2 * char_overlap
    /\ chunk_index' = chunk_index + 1
    /\ UNCHANGED <<text, char_chunk_size, char_overlap, cpc,
                   idVars, serviceVars, bucketVars, runVars>>

\* One iteration of the while loop.
ChunkIterate ==
    /\ cpc = "loop"
    /\ start < Len(text)
    /\ chunk_index < MaxIter
    /\ LET end == WindowEnd(text, start, char_chunk_size)
       IN  /\ chunks' = Append(chunks, ChunkDict(text, start, end, chunk_index))
           /\ start' = end - char_overlap
    /\ chunk_index' = chunk_index + 1
    /\ UNCHANGED <<text, char_chunk_size, char_overlap, cpc,
                   idVars, serviceVars, bucketVars, runVars>>

\* Mutant of ChunkReturn: the loop also ends once a window has reached the
\* end of the text.
ChunkReturn_AtEnd ==
    /\ cpc = "loop"
    /\ \/ ~(start < Len(text))
       \/ chunks # <<>> /\ chunks[Len(chunks)].end_char >= Len(text)
    /\ cpc' = "returned"
    /\ UNCHANGED <<text, char_chunk_size, char_overlap, chunks, start,
                   chunk_index, idVars, serviceVars, bucketVars, runVars>>

\* Mutant of ChunkReturn: the loop ends as soon as the chunks cover the text.
ChunkReturn_Covered ==
    /\ cpc = "loop"
    /\ \/ text = ""
       \/ chunks # <<>> /\ chunks[Len(chunks)].end_char >= Len(text)
    /\ cpc' = "returned"
    /\ UNCHANGED <<text, char_chunk_size, char_overlap, chunks, start,
                   chunk_index, idVars, serviceVars, bucketVars, runVars>>

\* The loop condition fails: return chunks.
ChunkReturn ==
    /\ cpc = "loop"
    /\ ~(start < Len(text))
    /\ cpc' = "returned"
    /\ UNCHANGED <<text, char_chunk_size, char_overlap, chunks, start,
                   chunk_index, idVars, serviceVars, bucketVars, runVars>>

NextChunk == ChunkIterate \/ ChunkReturn

SpecChunk == InitChunk /\ [][NextChunk]_vars

(***************************************************************************)
(* update_index called one call after the other                            *)
(***************************************************************************)
IndexLenses == {"L", "M"}

IndexPillars == {"A", "B"}

ChunkCounts == {3, 5}

\* metadata/index.json before the calls: absent, not JSON, a JSON object
\* without 'lenses', with no lens, or as earlier calls of update_index (at
\* instant 0) have left it
IndexStates ==
    LET one(l, p) == UpdatedIndex([lenses |-> EmptyDict], l, p, 9, 0)
    IN  {NoSuchKey, NotJson, WithoutLenses, IndexObject(EmptyDict)}
        \cup {IndexObject(one(l, p).lenses) : l \in IndexLenses, p \in IndexPillars}
        \cup {IndexObject(UpdatedIndex(one(l, "A"), l, "B", 7, 0).lenses) :
                 l \in IndexLenses}

InitIndex ==
    /\ ChunkIdle
    /\ IdIdle
    /\ ServiceConforms
    /\ clock = 1
    /\ vectors = EmptyDict
    /\ index \in IndexStates
    /\ RunsIdle

\* handler lines 254-259 with lens_name l, pillar p and a list chunks of n
\* records: store_vectors has put the records, and update_index(l, p, n) is
\* called once the earlier calls have returned.
CallUpdateIndex(r, l, p, n) ==
    /\ pc[r] = "Idle"
    /\ \A q \in Runs : q < r => pc[q] \in {"Done", "Failed"}
    /\ LET ev == [source_key |-> "", lens_name |-> l, pillar |-> p, source_file |-> ""]
           chunk(i) == [text |-> "", chunk_index |-> i - 1,
                        start_char |-> 0, end_char |-> 0]
           records == [i \in 1..n |-> ProcessedChunk(ev, chunk(i),
                                    [dimensions |-> service_dimensions], clock)]
       IN  /\ event' = [event EXCEPT ![r] = ev]
           /\ processed_chunks' = [processed_chunks EXCEPT ![r] = records]
           /\ vectors' = StoreAll(vectors, processed_chunks'[r], l, p)
           /\ stored' = [stored EXCEPT ![r] = n]
    /\ pc' = [pc EXCEPT ![r] = "IndexReading"]
    /\ UNCHANGED <<chunkVars, idVars, serviceVars, clock, index, content, doc_chunks,
                   local_index, response, trace>>

NextIndex ==
    \/ \E r \in Runs, l \in IndexLenses, p \in IndexPillars, n \in ChunkCounts :
          CallUpdateIndex(r, l, p, n)
    \/ \E r \in Runs : IndexRead(r)
    \/ \E r \in Runs : IndexWrite(r)

SpecIndex == InitIndex /\ [][NextIndex]_vars

(***************************************************************************)
(* generate_chunk_id called on its own                                     *)
(***************************************************************************)
IdTexts == {"", "ab"}

IdKeys == {"chunk_index", "lens_name", "pillar"}

IdValues(k) ==
    CASE k = "chunk_index" -> {0, 1}
      [] k = "lens_name" -> {"L"}
      [] k = "pillar" -> {"A", "B"}

IdItems == UNION {{<<k, v>> : v \in IdValues(k)} : k \in IdKeys}

\* the dicts with the keys IdKeys, in every insertion order
IdDicts ==
    {m \in [1..Cardinality(IdKeys) -> IdItems] :
        {m[i][1] : i \in 1..Len(m)} = IdKeys}

InitId ==
    /\ ChunkIdle
    /\ IdIdle
    /\ ServiceConforms
    /\ BucketEmpty
    /\ RunsIdle

\* generate_chunk_id(t, m) is called and returns.
GenerateChunkId(t, m) ==
    /\ Len(id_calls) < MaxIdCalls
    /\ id_calls' = Append(id_calls,
                      [text |-> t, metadata |-> m, id |-> generate_chunk_id(t, m)])
    /\ UNCHANGED <<chunkVars, serviceVars, bucketVars, runVars>>

NextId == \E t \in IdTexts, m \in IdDicts : GenerateChunkId(t, m)

SpecId == InitId /\ [][NextId]_vars

(***************************************************************************)
(* Properties                                                              *)
(***************************************************************************)
LensNames == {"Well-Architected Framework"}

PillarNames == {"Operational Excellence", "Security", "Reliability"}

\* idx has an entry for the pair (l, p)
InIndex(idx, l, p) ==
    /\ "lenses" \in DOMAIN idx
    /\ l \in DOMAIN idx.lenses
    /\ p \in DOMAIN idx.lenses[l].pillars

Last(s) == s[Len(s)]

\* the calls op made so far by invocation r
Calls(r, op) == SelectSeq(trace[r], LAMBDA c : c.op = op)

OkCalls(r, op) == SelectSeq(trace[r], LAMBDA c : c.op = op /\ c.ok)

Returned200(r) == pc[r] = "Done" /\ response[r].statusCode = 200

\* C1: update_index is a blind read-modify-write.  The index write of a run
\* stores the index as that run read it plus the run's own entry, and the run
\* returns 200: every entry of another pair that is stored at the time of the
\* write but was not there when the run read the index is discarded by the
\* write.  (So when two runs for different pillars both read before either
\* writes, the first writer's entry is gone after the second write.)
C1_LostUpdate ==
    [][\A r \in Runs :
          (pc[r] = "IndexWriting" /\ pc'[r] = "Done") =>
             /\ response'[r].statusCode = 200
             /\ \A l \in LensNames, p \in PillarNames :
                   ( /\ InIndex(index, l, p)
                     /\ ~InIndex(local_index[r], l, p)
                     /\ <<l, p>> # <<event[r].lens_name, event[r].pillar>> )
                   => ~InIndex(index', l, p)]_vars

\* Two runs for different pillars of one lens have both returned 200 and the
\* stored index holds the entry of only one of them.
C1_Witness ==
    \E r1, r2 \in Runs :
       /\ r1 # r2
       /\ Returned200(r1) /\ Returned200(r2)
       /\ event[r1].lens_name = event[r2].lens_name
       /\ event[r1].pillar # event[r2].pillar
       /\ ~InIndex(index, event[r1].lens_name, event[r1].pillar)
       /\ InIndex(index, event[r2].lens_name, event[r2].pillar)

\* C2: index entries are never removed: once the stored index has an entry
\* for a pair, every later stored index has an entry for that pair.
C2_NeverRemoved ==
    [][\A l \in LensNames, p \in PillarNames :
          InIndex(index, l, p) => InIndex(index', l, p)]_vars

\* the ids of the records a run made
IdsOf(r) == {processed_chunks[r][i].id : i \in 1..Len(processed_chunks[r])}

\* the keys a run writes its records to
KeysOf(r) ==
    {S3Key(event[r].lens_name, event[r].pillar, processed_chunks[r][i].id) :
        i \in 1..Len(processed_chunks[r])}

\* C3: reprocessing the same document is an idempotent overwrite: two
\* completed runs of the same event made the same chunk ids, whatever the
\* clock was, so the store holds no more objects than one run writes.
C3_IdempotentIds ==
    \A r1, r2 \in Runs :
       (Returned200(r1) /\ Returned200(r2) /\ event[r1] = event[r2]) =>
          /\ IdsOf(r1) = IdsOf(r2)
          /\ KeysOf(r1) = KeysOf(r2)

\* C4: chunk_text terminates when char_overlap >= char_chunk_size.  The loop
\* body is a function of start (text and sizes are fixed), so a call that
\* terminates never begins an iteration at a start it has begun one at before.
C4_Terminates ==
    (cpc = "loop" /\ char_overlap >= char_chunk_size) =>
       \A i \in 1..Len(chunks) : chunks[i].start_char # start

\* C5: every iteration of chunk_text makes strictly positive forward progress:
\* each chunk starts after the previous one, the next iteration starts after
\* the last chunk, and every chunk has end_char > start_char.
C5_ForwardProgress ==
    /\ \A i \in 1..Len(chunks) : chunks[i].end_char > chunks[i].start_char
    /\ \A i \in 2..Len(chunks) : chunks[i].start_char > chunks[i - 1].start_char
    /\ chunks # <<>> => start > Last(chunks).start_char

\* C6: when chunk_text returns on a non-empty text, the chunk ranges cover
\* [0, len(text)) without gaps: the first chunk starts at 0, each later chunk
\* starts at or before the end of the previous one, and the last chunk ends at
\* or after len(text).
C6_Coverage ==
    (cpc = "returned" /\ text # "") =>
       /\ chunks # <<>>
       /\ chunks[1].start_char = 0
       /\ \A i \in 2..Len(chunks) : chunks[i].start_char <= chunks[i - 1].end_char
       /\ Last(chunks).end_char >= Len(text)

\* chunk_text has returned three chunks, the first of them cut at a period or
\* newline before the hard window boundary.
C6_Witness ==
    /\ cpc = "returned"
    /\ Len(chunks) = 3
    /\ char_overlap > 0
    /\ chunks[1].end_char < char_chunk_size

StageRank(op) ==
    CASE op = "get_object" -> 1
      [] op = "invoke_model" -> 2
      [] op = "put_object" -> 3
      [] op = "get_index" -> 4
      [] op = "put_index" -> 5

\* C7: the stages of a run happen in the order fetch, chunk, embed, store,
\* index, done.  The external calls of a run are made in stage order; the
\* embedding calls are for chunk_index 0, 1, 2, ... in turn; no chunk object is
\* put before every chunk is embedded; the index is neither read nor written
\* before every chunk object is put; and a failed call is the last call of
\* the run, which is then Failed for good.
C7_StageOrder ==
    \A r \in Runs :
       LET t == trace[r]
       IN  /\ \A i \in 1..(Len(t) - 1) :
                 t[i].ok /\ StageRank(t[i].op) <= StageRank(t[i + 1].op)
           /\ \A i \in 1..Len(Calls(r, "invoke_model")) :
                 Calls(r, "invoke_model")[i].n = i - 1
           /\ \A i \in 1..Len(Calls(r, "put_object")) :
                 Calls(r, "put_object")[i].n = i - 1
           /\ Calls(r, "put_object") # <<>> =>
                 /\ pc[r] \notin {"Started", "Fetching", "Chunking", "Embedding"}
                 /\ Len(OkCalls(r, "invoke_model")) = Len(doc_chunks[r])
           /\ (Calls(r, "get_index") # <<>> \/ Calls(r, "put_index") # <<>>) =>
                 /\ pc[r] \in {"IndexWriting", "Done", "Failed"}
                 /\ Len(OkCalls(r, "invoke_model")) = Len(doc_chunks[r])
                 /\ Len(OkCalls(r, "put_object")) = Len(doc_chunks[r])
           /\ (t # <<>> /\ ~Last(t).ok) => pc[r] = "Failed"
           /\ pc[r] = "Done" =>
                 /\ t # <<>> /\ Last(t).ok /\ Last(t).op = "put_index"
                 /\ Len(Calls(r, "get_object")) = 1
                 /\ Len(Calls(r, "get_index")) = 1

\* A run of the three-chunk document is done.
C7_Witness ==
    \E r \in Runs : pc[r] = "Done" /\ Len(doc_chunks[r]) = 3 /\ Len(trace[r]) = 9

\* C8: a failure while storing is fail-fast without rollback: when the k-th
\* chunk write of a run fails, the k-1 objects the run wrote before are in the
\* store, the run makes no further chunk write and no index call, and the
\* handler returns 500.
C8_StoreFailure ==
    \A r \in Runs :
       (trace[r] # <<>> /\ Last(trace[r]).op = "put_object" /\ ~Last(trace[r]).ok) =>
          LET k == Last(trace[r]).n + 1
          IN  /\ \A i \in 1..(k - 1) :
                    /\ S3Key(event[r].lens_name, event[r].pillar,
                             processed_chunks[r][i].id) \in DOMAIN vectors
                    /\ vectors[S3Key(event[r].lens_name, event[r].pillar,
                                     processed_chunks[r][i].id)].id
                          = processed_chunks[r][i].id
              /\ Len(Calls(r, "put_object")) = k
              /\ stored[r] = k - 1
              /\ Calls(r, "get_index") = <<>>
              /\ Calls(r, "put_index") = <<>>
              /\ ~InIndex(local_index[r], event[r].lens_name, event[r].pillar)
              /\ pc[r] = "Failed"
              /\ response[r].statusCode = 500

\* The second of three chunk writes of a run has failed.
C8_Witness ==
    \E r \in Runs :
       /\ pc[r] = "Failed"
       /\ Len(processed_chunks[r]) = 3
       /\ trace[r] # <<>>
       /\ Last(trace[r]) = Call("put_object", 1, FALSE)
       /\ stored[r] = 1

\* C9: the index update of a run is attempted only after every chunk of the
\* document was embedded and stored, and the chunk_count it writes is the
\* number of chunks embedded and stored, which the 200 response reports as
\* chunks_created.
C9_IndexAfterAll ==
    \A r \in Runs :
       /\ (Calls(r, "get_index") # <<>>) =>
             /\ Len(processed_chunks[r]) = Len(doc_chunks[r])
             /\ stored[r] = Len(doc_chunks[r])
             /\ Len(OkCalls(r, "invoke_model")) = Len(doc_chunks[r])
             /\ Len(OkCalls(r, "put_object")) = Len(doc_chunks[r])
       /\ (Calls(r, "put_index") # <<>>) =>
             /\ InIndex(local_index[r], event[r].lens_name, event[r].pillar)
             /\ local_index[r].lenses[event[r].lens_name].pillars[event[r].pillar].chunk_count
                   = Len(OkCalls(r, "put_object"))
       /\ pc[r] = "Done" =>
             /\ Calls(r, "put_index") # <<>>
             /\ response[r].body.chunks_created = Len(OkCalls(r, "put_object"))
             /\ response[r].body.chunks_created = Len(OkCalls(r, "invoke_model"))

\* A run has written chunk_count 3 to the index and returned chunks_created 3.
C9_Witness ==
    \E r \in Runs :
       /\ Returned200(r)
       /\ response[r].body.chunks_created = 3
       /\ InIndex(index, event[r].lens_name, event[r].pillar)
       /\ index.lenses[event[r].lens_name].pillars[event[r].pillar].chunk_count = 3

\* C10: the handler never lets an exception out.  A run that has ended has
\* returned 200 with message and chunks_created, or 500 with error; a run
\* with a failed step (an event field missing, or any external call failed)
\* has returned 500; and a run has returned 200 only if its fetch, every
\* embedding, every chunk write, the index read and the index write succeeded.
C10_Responses ==
    \A r \in Runs :
       /\ pc[r] # "Raised"
       /\ pc[r] \notin {"Done", "Failed"} => response[r] = NoResponse
       /\ pc[r] = "Done" =>
             /\ response[r].statusCode = 200
             /\ DOMAIN response[r].body = {"message", "chunks_created"}
             /\ \A i \in 1..Len(trace[r]) : trace[r][i].ok
             /\ OkCalls(r, "get_object") # <<>>
             /\ OkCalls(r, "get_index") # <<>>
             /\ OkCalls(r, "put_index") # <<>>
       /\ pc[r] = "Failed" =>
             /\ response[r].statusCode = 500
             /\ DOMAIN response[r].body = {"error"}
       /\ ( \/ \E i \in 1..Len(trace[r]) : ~trace[r][i].ok
            \/ (pc[r] # "Idle" /\ pc[r] # "Started"
                  /\ \E i \in 1..Len(EventFields) : EventFields[i] \notin DOMAIN event[r]) )
          => (pc[r] = "Failed" /\ response[r].statusCode = 500)

\* One run has returned 500 for a missing event field and another has
\* returned 500 after its index write failed.
C10_Witness ==
    \E r1, r2 \in Runs :
       /\ pc[r1] = "Failed" /\ trace[r1] = <<>> /\ response[r1].statusCode = 500
       /\ pc[r2] = "Failed" /\ trace[r2] # <<>>
       /\ Last(trace[r2]) = Call("put_index", 0, FALSE)
       /\ response[r2].statusCode = 500

\* C11: the embedding of every persisted record has the configured length.
\* Every object stored under embeddings/ holds a vector of
\* EMBEDDING_DIMENSIONS numbers, and a run that was answered with a vector of
\* another length has not returned 200 (it failed with an embedding error and
\* wrote no record carrying that vector).
C11_EmbeddingDimension ==
    /\ \A k \in DOMAIN vectors :
          vectors[k].embedding.dimensions = EMBEDDING_DIMENSIONS
    /\ \A r \in Runs :
          pc[r] = "Done" =>
             \A i \in 1..Len(processed_chunks[r]) :
                processed_chunks[r][i].embedding.dimensions = EMBEDDING_DIMENSIONS

\* the entry of the pair (l, p) in the stored index
StoredEntry(l, p) == index.lenses[l].pillars[p]

\* C12: sequential index updates for two different pillars of one lens both
\* persist.  Whatever the index was before, when update_index(L, A, m) has
\* returned, update_index(L, B, n) was called next and has returned, and no
\* later call has returned, the stored index has pillar A with chunk_count m
\* and pillar B with chunk_count n under lens L (m = 5 and n = 3 included).
C12_SequentialUpdates ==
    \A r1, r2 \in Runs :
       ( /\ r2 = r1 + 1
         /\ pc[r1] = "Done" /\ pc[r2] = "Done"
         /\ \A q \in Runs : q > r2 => pc[q] # "Done"
         /\ event[r1].lens_name = event[r2].lens_name
         /\ event[r1].pillar # event[r2].pillar )
       => /\ InIndex(index, event[r1].lens_name, event[r1].pillar)
          /\ InIndex(index, event[r2].lens_name, event[r2].pillar)
          /\ StoredEntry(event[r1].lens_name, event[r1].pillar).chunk_count
                = Len(processed_chunks[r1])
          /\ StoredEntry(event[r2].lens_name, event[r2].pillar).chunk_count
                = Len(processed_chunks[r2])

\* update_index("L", "A", 5) and then update_index("L", "B", 3) have returned
\* and the stored index shows A with 5 and B with 3.
C12_Witness ==
    /\ pc[1] = "Done" /\ pc[2] = "Done"
    /\ event[1].lens_name = "L" /\ event[1].pillar = "A"
    /\ Len(processed_chunks[1]) = 5
    /\ event[2].lens_name = "L" /\ event[2].pillar = "B"
    /\ Len(processed_chunks[2]) = 3
    /\ InIndex(index, "L", "A") /\ StoredEntry("L", "A").chunk_count = 5
    /\ InIndex(index, "L", "B") /\ StoredEntry("L", "B").chunk_count = 3

\* C13: the chunk_index values of the list chunk_text builds and returns are
\* 0, 1, ..., n-1 in list order, with no gaps or repeats.
C13_ChunkIndexes ==
    /\ \A i \in 1..Len(chunks) : chunks[i].chunk_index = i - 1
    /\ cpc = "returned" =>
          {chunks[i].chunk_index : i \in 1..Len(chunks)} = 0..(Len(chunks) - 1)

\* chunk_text has returned three chunks, the last with chunk_index 2.
C13_Witness ==
    /\ cpc = "returned"
    /\ Len(chunks) = 3
    /\ chunks[3].chunk_index = 2

\* C14: adjacent chunk ranges overlap by exactly the configured overlap: each
\* chunk after the first starts char_overlap characters before the end_char
\* of the chunk before it, whether or not that end was snapped to a period or
\* newline, and the next iteration starts char_overlap before the last end.
C14_ExactOverlap ==
    /\ \A i \in 2..Len(chunks) :
          chunks[i].start_char = chunks[i - 1].end_char - char_overlap
    /\ chunks # <<>> => start = Last(chunks).end_char - char_overlap

\* chunk_text has returned chunks with a positive overlap, one followed by
\* another after a snapped end and one followed by another after a hard end.
C14_Witness ==
    /\ cpc = "returned"
    /\ char_overlap > 0
    /\ \E i \in 1..(Len(chunks) - 1) :
          chunks[i].end_char < chunks[i].start_char + char_chunk_size
    /\ \E i \in 1..(Len(chunks) - 1) :
          chunks[i].end_char = chunks[i].start_char + char_chunk_size

\* C15: every chunk's [start_char, end_char) is a range of offsets into the
\* text: 0 <= start_char < len(text) and end_char <= len(text), the final
\* chunk included (stated for the configurations whose overlap is smaller
\* than the window).
C15_OffsetsInRange ==
    char_overlap < char_chunk_size =>
       \A i \in 1..Len(chunks) :
          /\ 0 <= chunks[i].start_char
          /\ chunks[i].start_char < Len(text)
          /\ chunks[i].end_char <= Len(text)

\* the window-relative offsets of the periods and newlines inside the window
\* of char_chunk_size characters that starts at offset s of text
MarkOffsets(s) ==
    {j \in 0..(char_chunk_size - 1) :
        s + j < Len(text) /\ CharAt(text, s + j) \in Marks}

MaxOf(S) == CHOOSE p \in S : \A q \in S : q <= p

\* C16: boundary snapping.  For a chunk starting at offset s >= 0, with hard
\* window end s + char_chunk_size: when the hard end is before the end of the
\* text and the last period or newline of the window is at a window-relative
\* position p > 0.7 * char_chunk_size, end_char is s + p + 1; in every other
\* case (no period or newline, p at or before the 70% mark, or the window
\* reaching the end of the text) end_char is the hard end.  In particular the
\* text of 4000 characters with its period at 2800 and a window of 3200
\* gives a first chunk ending at 2801.
C16_BoundarySnap ==
    /\ \A i \in 1..Len(chunks) :
          LET s == chunks[i].start_char
              hard == s + char_chunk_size
              marks == MarkOffsets(s)
          IN  s >= 0 =>
                 chunks[i].end_char =
                    IF /\ hard < Len(text)
                       /\ marks # {}
                       /\ 10 * MaxOf(marks) > 7 * char_chunk_size
                    THEN s + MaxOf(marks) + 1
                    ELSE hard
    /\ (text = PeriodAt(2800) /\ chunks # <<>>) => chunks[1].end_char = 2801

\* chunk_text has returned for the 4000-character text with its period at
\* 2800 under the default window, the first chunk cut at 2801.
C16_Witness ==
    /\ cpc = "returned"
    /\ text = PeriodAt(2800)
    /\ char_chunk_size = 3200
    /\ chunks[1].start_char = 0
    /\ chunks[1].end_char = 2801

\* text holds no period and no newline
NoMarks == \A j \in 0..(Len(text) - 1) : CharAt(text, j) \notin Marks

\* C17: for a text without periods and newlines and an overlap smaller than
\* the window, the chunks are cut at the hard window boundary every
\* (window - overlap) characters: chunk i (from 0) has
\* start_char = i * (char_chunk_size - char_overlap) and
\* end_char = start_char + char_chunk_size.
C17_HardBoundaries ==
    (NoMarks /\ char_overlap < char_chunk_size) =>
       \A i \in 1..Len(chunks) :
          /\ chunks[i].start_char = (i - 1) * (char_chunk_size - char_overlap)
          /\ chunks[i].end_char = chunks[i].start_char + char_chunk_size

\* chunk_text has returned three chunks of a text of ten letters, with a
\* window of 8 and an overlap of 4 characters.
C17_Witness ==
    /\ cpc = "returned"
    /\ NoMarks
    /\ Len(text) = 10
    /\ char_chunk_size = 8 /\ char_overlap = 4
    /\ Len(chunks) = 3
    /\ chunks[3].start_char = 8 /\ chunks[3].end_char = 16

\* an event naming the document whose text chunk_text was called on
ScenarioEvent ==
    [source_key |-> "doc.txt", lens_name |-> "L", pillar |-> "A",
     source_file |-> "doc.txt"]

\* the id process_document gives the record of the i-th chunk
RecordId(i) ==
    ProcessedChunk(ScenarioEvent, chunks[i],
                   [dimensions |-> service_dimensions], clock).id

\* the first chunk text followed by every later chunk text without its first
\* char_overlap characters, from the i-th chunk on
RECURSIVE Rebuilt(_)
Rebuilt(i) ==
    IF i > Len(chunks) THEN ""
    ELSE (IF i = 1 THEN chunks[i].text
          ELSE Slice(chunks[i].text, char_overlap, Len(chunks[i].text)))
         \o Rebuilt(i + 1)

DistinctIds ==
    LET ids == [i \in 1..Len(chunks) |-> RecordId(i)]
    IN  \A i, j \in 1..Len(chunks) : i < j => ids[i] # ids[j]

\* two windows of char_chunk_size characters, the second starting
\* char_overlap before the end of the first, cover the text; one does not
TwoWindowsSuffice ==
    /\ char_chunk_size < Len(text)
    /\ Len(text) <= 2 * char_chunk_size - char_overlap

ItemSet(m) == {m[i] : i \in 1..Len(m)}

\* C19: generate_chunk_id is deterministic and depends on nothing but the
\* text and the key/value pairs of metadata.  Of any two calls, those with
\* the same text and the same pairs, in whatever insertion order, have
\* returned the same id; and, the hash being injective, those whose metadata
\* differ in a field (or whose texts differ) have returned different ids.
C19_Deterministic ==
    \A i, j \in 1..Len(id_calls) :
       ( /\ id_calls[i].text = id_calls[j].text
         /\ ItemSet(id_calls[i].metadata) = ItemSet(id_calls[j].metadata) )
       <=> id_calls[i].id = id_calls[j].id

\* Two calls with the same text and the same pairs inserted in different
\* orders have returned the same id.
C19_Witness ==
    /\ Len(id_calls) = 2
    /\ id_calls[1].text = id_calls[2].text
    /\ id_calls[1].metadata # id_calls[2].metadata
    /\ ItemSet(id_calls[1].metadata) = ItemSet(id_calls[2].metadata)
    /\ id_calls[1].id = id_calls[2].id

\* the lens and pillar names of the events, lower-cased with hyphens for
\* spaces
LensKey == "Well-Architected Framework" :> "well-architected-framework"

PillarKey ==
    ("Operational Excellence" :> "operational-excellence")
    @@ ("Security" :> "security")
    @@ ("Reliability" :> "reliability")

ExpectedKey(ev, id) ==
    "embeddings/" \o LensKey[ev.lens_name] \o "/" \o PillarKey[ev.pillar]
                  \o "/" \o id \o ".json"

\* C20: after a successful run every record of the run is stored, whole, at
\* embeddings/{lens-key}/{pillar-key}/{id}.json, the keys being lens_name and
\* pillar in lower case with hyphens for spaces and id the record's own id;
\* and each chunk write puts the record at that key, replacing what was
\* stored there, and leaves every other object as it was.
C20_StoredAtKey ==
    /\ [](\A r \in Runs :
            Returned200(r) =>
               \A i \in 1..Len(processed_chunks[r]) :
                  LET rec == processed_chunks[r][i]
                      key == ExpectedKey(event[r], rec.id)
                  IN  /\ key \in DOMAIN vectors
                      /\ vectors[key] = rec
                      /\ DOMAIN vectors[key] = {"id", "text", "embedding", "metadata"})
    /\ [][\A r \in Runs :
            stored'[r] = stored[r] + 1 =>
               LET rec == processed_chunks[r][stored[r] + 1]
                   key == ExpectedKey(event[r], rec.id)
               IN  vectors' = [k \in DOMAIN vectors \cup {key} |->
                                  IF k = key THEN rec ELSE vectors[k]]]_vars

\* Two runs of the three-chunk document have returned 200 with the same
\* record ids, so the later writes replaced the objects of the earlier ones,
\* and the three objects are stored under
\* embeddings/well-architected-framework/operational-excellence/.
C20_Witness ==
    \E r1, r2 \in Runs :
       /\ r1 # r2
       /\ Returned200(r1) /\ Returned200(r2)
       /\ Len(processed_chunks[r1]) = 3
       /\ event[r1].pillar = "Operational Excellence"
       /\ IdsOf(r1) = IdsOf(r2)
       /\ DOMAIN vectors =
             {"embeddings/well-architected-framework/operational-excellence/"
                 \o processed_chunks[r1][i].id \o ".json" : i \in 1..3}

\* C21: the embedding call has no retry and fails fast.  Within a run the
\* embedding service is invoked at most once per chunk, in chunk order; a
\* failed invocation is the last call the run makes: no later chunk is sent
\* to the service, no chunk object is put, the index is neither read nor
\* written, and the run has ended with the 500 response.
C21_EmbedFailFast ==
    \A r \in Runs :
        LET inv == Calls(r, "invoke_model")
        IN  /\ \A i \in 1..Len(inv) : inv[i].n = i - 1
            /\ \A i \in 1..Len(inv) : i < Len(inv) => inv[i].ok
            /\ (inv # <<>> /\ ~Last(inv).ok) =>
                  /\ Last(trace[r]) = Last(inv)
                  /\ Len(inv) <= Len(doc_chunks[r])
                  /\ Calls(r, "put_object") = <<>>
                  /\ Calls(r, "get_index") = <<>>
                  /\ Calls(r, "put_index") = <<>>
                  /\ stored[r] = 0
                  /\ pc[r] = "Failed"
                  /\ response[r].statusCode = 500

\* the second of three embedding calls has failed
C21_Witness ==
    \E r \in Runs :
        /\ Len(doc_chunks[r]) = 3
        /\ Calls(r, "invoke_model") =
              <<Call("invoke_model", 0, TRUE), Call("invoke_model", 1, FALSE)>>
        /\ pc[r] = "Failed"

\* C22: a completed update_index(lens, pillar, n) on a sequentially accessed
\* index changes exactly one entry.  With the object absent counting as the
\* index without lenses: the step on which the call writes the index and
\* returns leaves an index whose lenses are the earlier ones and lens, whose
\* pillars per lens are the earlier ones and, under lens, pillar; the entry of
\* (lens, pillar) is {chunk_count: n, last_updated: now} and every other
\* entry is what it was.
C22_ExactlyOneEntry ==
    [][\A r \in Runs :
          (pc[r] = "IndexWriting" /\ pc'[r] = "Done") =>
             LET old == IF index.exists THEN index.lenses ELSE EmptyDict
                 l == event[r].lens_name
                 p == event[r].pillar
                 new == index'.lenses
             IN  /\ index'.exists
                 /\ DOMAIN new = DOMAIN old \cup {l}
                 /\ \A m \in DOMAIN new :
                       /\ DOMAIN new[m] = {"pillars"}
                       /\ DOMAIN new[m].pillars =
                             (IF m \in DOMAIN old THEN DOMAIN old[m].pillars ELSE {})
                             \cup (IF m = l THEN {p} ELSE {})
                       /\ \A q \in DOMAIN new[m].pillars :
                             new[m].pillars[q] =
                                IF m = l /\ q = p
                                THEN [chunk_count |-> Len(processed_chunks[r]),
                                      last_updated |-> isoformat(clock)]
                                ELSE old[m].pillars[q]]_vars

\* update_index("L", "A", 3) has returned at instant 1 on an index that held
\* ("L", "A") and ("L", "B") from instant 0: A is rewritten, B is as it was.
C22_Witness ==
    /\ pc[1] = "Done" /\ pc[2] = "Idle"
    /\ event[1].lens_name = "L" /\ event[1].pillar = "A"
    /\ InIndex(index, "L", "A")
    /\ StoredEntry("L", "A") = [chunk_count |-> 3, last_updated |-> isoformat(1)]
    /\ InIndex(index, "L", "B")
    /\ StoredEntry("L", "B") = [chunk_count |-> 7, last_updated |-> isoformat(0)]

\* the object metadata/index.json exists but is not an index
Malformed(object) == object.exists /\ "lenses" \notin DOMAIN object

\* C23: only an absent index object is initialized to the empty index.  When
\* metadata/index.json exists but is malformed (not parseable, or lacking
\* 'lenses'), no step changes the stored index object, and every run whose
\* update_index call is over has failed before writing: it made no index
\* write, the chunk objects it had put are still stored, and its response is
\* the 500 one.
C23_MalformedIndex ==
    /\ [](Malformed(index) =>
            \A r \in Runs :
               pc[r] \notin {"Idle", "IndexReading", "IndexWriting"} =>
                  /\ pc[r] = "Failed"
                  /\ response[r].statusCode = 500
                  /\ Calls(r, "put_index") = <<>>
                  /\ \A i \in 1..Len(processed_chunks[r]) :
                        LET key == S3Key(event[r].lens_name, event[r].pillar,
                                         processed_chunks[r][i].id)
                        IN  /\ key \in DOMAIN vectors
                            /\ vectors[key] = processed_chunks[r][i])
    /\ [][Malformed(index) => index' = index]_vars

\* update_index has failed on an index object that is not JSON, with the
\* run's three chunk objects stored
C23_Witness ==
    /\ index = NotJson
    /\ pc[1] = "Failed"
    /\ response[1] = ErrorResponse("JSONDecodeError")
    /\ Len(processed_chunks[1]) = 3
    /\ Cardinality(DOMAIN vectors) = 3

\* t is raw without its leading and trailing whitespace
Trimmed(raw, t) ==
    /\ t # "" => /\ CharAt(t, 0) \notin Whitespace
                 /\ CharAt(t, Len(t) - 1) \notin Whitespace
    /\ \E a \in 0..(Len(raw) - Len(t)) :
          /\ t = Slice(raw, a, a + Len(t))
          /\ \A i \in 0..(a - 1) : CharAt(raw, i) \in Whitespace
          /\ \A i \in (a + Len(t))..(Len(raw) - 1) : CharAt(raw, i) \in Whitespace

\* C24: trimming does not affect offset bookkeeping.  The text of every chunk
\* is text[start_char:end_char] with the surrounding whitespace removed (so
\* never longer than it), while the offsets are those of the untrimmed
\* window: start_char is 0 or the previous end_char less the overlap,
\* end_char is the window end found from start_char, and the next start is
\* the last end_char less the overlap.
C24_TrimKeepsOffsets ==
    /\ \A i \in 1..Len(chunks) :
          LET c == chunks[i]
              raw == Slice(text, c.start_char, c.end_char)
          IN  /\ Trimmed(raw, c.text)
              /\ Len(c.text) <= Len(raw)
              /\ c.start_char = IF i = 1 THEN 0
                                ELSE chunks[i - 1].end_char - char_overlap
              /\ c.end_char = WindowEnd(text, c.start_char, char_chunk_size)
    /\ chunks # <<>> => start = Last(chunks).end_char - char_overlap

\* "aaa\n\n" in windows of 4: the first chunk holds 3 characters for the
\* range [0, 4), the second holds none for the range [4, 8)
C24_Witness ==
    /\ cpc = "returned"
    /\ Len(chunks) = 2
    /\ chunks[1].text = "aaa" /\ chunks[1].start_char = 0 /\ chunks[1].end_char = 4
    /\ chunks[2].text = "" /\ chunks[2].start_char = 4 /\ chunks[2].end_char = 8
    /\ Slice(text, 4, 8) # ""

\* C25: every document run eventually reaches a terminal state.  With the
\* default chunk_size and overlap, and every external call returning or
\* raising, an invocation that has started eventually has returned the 200
\* response (Done) or the 500 response (Failed), and from then on it makes no
\* call to the store or the index and its response stays.
C25_EventuallyTerminal ==
    /\ \A r \in Runs : (pc[r] = "Started") ~> (pc[r] \in {"Done", "Failed"})
    /\ [](\A r \in Runs :
             /\ pc[r] = "Done" => response[r].statusCode = 200
             /\ pc[r] = "Failed" => response[r].statusCode = 500)
    /\ [][\A r \in Runs :
             pc[r] \in {"Done", "Failed"} =>
                /\ pc'[r] = pc[r]
                /\ response'[r] = response[r]
                /\ trace'[r] = trace[r]
                /\ stored'[r] = stored[r]]_vars

\* both invocations have ended, one with 200 after its index write and one
\* with 500
C25_Witness ==
    /\ pc[1] = "Done" /\ response[1].statusCode = 200
    /\ Last(trace[1]) = Call("put_index", 0, TRUE)
    /\ pc[2] = "Failed" /\ response[2].statusCode = 500

\* C26: a failure during fetching or embedding leaves the chunk store
\* unchanged.  A run puts its first chunk object only after every chunk of
\* its document has been embedded; a run that is still fetching, chunking or
\* embedding, or that failed there, has made no chunk write and no index
\* write; a failed run that did write failed while storing or updating the
\* index; and while no run has had a write succeed the bucket holds no chunk
\* object and no index object.
C26_EarlyFailureWritesNothing ==
    /\ \A r \in Runs :
          LET early ==
                 \/ pc[r] \in {"Started", "Fetching", "Chunking", "Embedding"}
                 \/ /\ pc[r] = "Failed"
                    /\ \/ trace[r] = <<>>
                       \/ Last(trace[r]).op \in {"get_object", "invoke_model"}
          IN  /\ early => /\ Calls(r, "put_object") = <<>>
                          /\ Calls(r, "put_index") = <<>>
                          /\ stored[r] = 0
              /\ Calls(r, "put_object") # <<>> =>
                    /\ Len(doc_chunks[r]) > 0
                    /\ Len(OkCalls(r, "invoke_model")) = Len(doc_chunks[r])
              /\ (pc[r] = "Failed" /\ Calls(r, "put_object") # <<>>) =>
                    Last(trace[r]).op \in {"put_object", "get_index", "put_index"}
    /\ (\A r \in Runs : OkCalls(r, "put_object") = <<>>) => vectors = EmptyDict
    /\ (\A r \in Runs : OkCalls(r, "put_index") = <<>>) => index = NoSuchKey

\* one run failed on its source document and the other on its third embedding
\* call, and the bucket is as empty as before
C26_Witness ==
    /\ pc[1] = "Failed" /\ trace[1] = <<Call("get_object", 0, FALSE)>>
    /\ pc[2] = "Failed" /\ Len(trace[2]) = 4
    /\ trace[2][4] = Call("invoke_model", 2, FALSE)
    /\ vectors = EmptyDict
    /\ index = NoSuchKey

\* the chunk objects stored under the prefix of the pair (l, p)
ObjectsOf(l, p) ==
    {k \in DOMAIN vectors :
        /\ vectors[k].metadata[1] = <<"lens_name", l>>
        /\ vectors[k].metadata[2] = <<"pillar", p>>}

\* C27: the index chunk_count is a last-writer value, not an accumulation.
\* With the runs made one after the other, the entry of a pair holds the
\* chunk count of the last run completed for that pair, whatever count the
\* entry held before and however many chunk objects are stored for the pair.
C27_LastWriterCount ==
    \A r \in Runs :
       ( /\ pc[r] = "Done"
         /\ \A q \in Runs :
               (q > r /\ pc[q] = "Done") =>
                  \/ event[q].lens_name # event[r].lens_name
                  \/ event[q].pillar # event[r].pillar )
       => /\ InIndex(index, event[r].lens_name, event[r].pillar)
          /\ StoredEntry(event[r].lens_name, event[r].pillar).chunk_count
                = Len(processed_chunks[r])

\* a run of 5 chunks and then a run of 3 chunks completed for the pair
\* ("L", "A"): the entry says 3 while 5 objects are stored
C27_Witness ==
    /\ pc[1] = "Done" /\ pc[2] = "Done"
    /\ event[1].lens_name = "L" /\ event[1].pillar = "A"
    /\ event[2].lens_name = "L" /\ event[2].pillar = "A"
    /\ Len(processed_chunks[1]) = 5
    /\ Len(processed_chunks[2]) = 3
    /\ Calls(1, "put_index") = <<Call("put_index", 0, TRUE)>>
    /\ local_index[1].lenses["L"].pillars["A"].chunk_count = 5
    /\ StoredEntry("L", "A").chunk_count = 3
    /\ Cardinality(ObjectsOf("L", "A")) = 5

\* char_chunk_size > 0 and 0 <= char_overlap <= 0.7 * char_chunk_size
ModerateOverlap ==
    /\ char_chunk_size > 0
    /\ 0 <= char_overlap
    /\ 10 * char_overlap <= 7 * char_chunk_size

\* C28: with char_chunk_size > 0 and 0 <= char_overlap <= 0.7 *
\* char_chunk_size (the defaults 3200 and 240 included) chunk_text terminates
\* on every text.  Each iteration, snapped or not, begins at least 1 character
\* after the one before, so there are at most len(text) chunks (the loop is
\* never cut short by the iteration bound of this model), and the loop ends
\* once start has reached len(text).
C28_ModerateOverlapTerminates ==
    ModerateOverlap =>
       /\ \A i \in 2..Len(chunks) :
             chunks[i].start_char >= chunks[i - 1].start_char + 1
       /\ chunks # <<>> => start >= Last(chunks).start_char + 1
       /\ Len(chunks) <= Len(text)
       /\ (cpc = "loop" /\ start < Len(text)) => chunk_index < MaxIter
       /\ cpc = "returned" => start >= Len(text)

\* windows of 8 overlapping by 4: the first chunk was cut after the period at
\* offset 6, and the call returned after three iterations
C28_Witness ==
    /\ cpc = "returned"
    /\ char_chunk_size = 8 /\ char_overlap = 4
    /\ Len(chunks) = 3
    /\ chunks[1].end_char = 7
    /\ chunks[2].start_char = 3
    /\ start >= Len(text)

\* the end of the in-document range [start_char, min(end_char, len(text)))
InDocEnd(c) == Min2(c.end_char, Len(text))

\* the in-document range of chunk i lies inside that of chunk i - 1
Contained(i) ==
    /\ chunks[i].start_char >= chunks[i - 1].start_char
    /\ InDocEnd(chunks[i]) <= InDocEnd(chunks[i - 1])

\* C29 as claimed: chunk_text emits no redundant trailing chunk.  (Stated for
\* 0 <= char_overlap <= 0.7 * char_chunk_size, where the loop advances.)  A
\* chunk that is followed by another has a window that did not reach the end
\* of the text, and no chunk's in-document range is contained in the range of
\* the chunk before it.
C29_NoRedundantChunk ==
    ModerateOverlap =>
       /\ \A i \in 1..(Len(chunks) - 1) :
             chunks[i].start_char + char_chunk_size < Len(text)
       /\ \A i \in 2..Len(chunks) : ~Contained(i)

\* C29 amended: the loop ends only when start has reached len(text).  For
\* 0 <= char_overlap <= 0.7 * char_chunk_size: the call returns only when the
\* last end_char less the overlap is at least len(text); a chunk's
\* in-document range is contained in the previous chunk's exactly when the
\* previous chunk already ended at or after len(text); and with no overlap
\* no chunk follows a chunk that reached the end of the text.
C29_TrailingChunks ==
    ModerateOverlap =>
       /\ (cpc = "returned" /\ chunks # <<>>) =>
             Last(chunks).end_char - char_overlap >= Len(text)
       /\ \A i \in 2..Len(chunks) :
             Contained(i) <=> chunks[i - 1].end_char >= Len(text)
       /\ char_overlap = 0 =>
             \A i \in 2..Len(chunks) : chunks[i - 1].end_char < Len(text)

\* 'abcdefghij' in windows of 8 overlapping by 4: the second chunk [4, 12)
\* reached the end of the text, and a third chunk [8, 16) was emitted, whose
\* characters 'ij' are all in the second
C29_Witness ==
    /\ cpc = "returned"
    /\ text = Alphabet10
    /\ Len(chunks) = 3
    /\ chunks[2].start_char = 4 /\ chunks[2].end_char = 12
    /\ chunks[3].start_char = 8 /\ chunks[3].end_char = 16
    /\ Contained(3)

\* C30: an empty document is processed successfully.  chunk_text returns the
\* empty list for the empty text; a run that has fetched an empty document
\* makes no embedding call and no chunk write, fails only if a call to the
\* index fails, and otherwise writes the index with chunk_count 0 for its
\* pair and returns 200 with chunks_created 0.
C30_EmptyDocument ==
    /\ chunk_text("", DefaultChunkSize, DefaultOverlap) = <<>>
    /\ \A r \in Runs :
          (OkCalls(r, "get_object") # <<>> /\ content[r] = "") =>
             /\ pc[r] # "Chunking" => doc_chunks[r] = <<>>
             /\ processed_chunks[r] = <<>>
             /\ Calls(r, "invoke_model") = <<>>
             /\ Calls(r, "put_object") = <<>>
             /\ pc[r] = "Failed" =>
                   /\ Last(trace[r]).op \in {"get_index", "put_index"}
                   /\ ~Last(trace[r]).ok
             /\ pc[r] = "Done" =>
                   /\ Last(trace[r]) = Call("put_index", 0, TRUE)
                   /\ InIndex(local_index[r], event[r].lens_name, event[r].pillar)
                   /\ local_index[r].lenses[event[r].lens_name]
                         .pillars[event[r].pillar].chunk_count = 0
                   /\ response[r] = SuccessResponse(0)

\* the run of the empty Security document has returned 200 with
\* chunks_created 0, the index holds the count 0 for the pair, and no chunk
\* object is stored
C30_Witness ==
    \E r \in Runs :
        /\ pc[r] = "Done"
        /\ event[r].pillar = "Security"
        /\ content[r] = ""
        /\ response[r].statusCode = 200
        /\ response[r].body.chunks_created = 0
        /\ InIndex(index, "Well-Architected Framework", "Security")
        /\ StoredEntry("Well-Architected Framework", "Security").chunk_count = 0
        /\ vectors = EmptyDict

=============================================================================
